---- MODULE Spec2Model ----
(***************************************************************************)
(* The proposal canister of ICP_DAO (Azle / TypeScript).                   *)
(*                                                                         *)
(* The canister keeps one StableBTreeMap, proposalStorage, from proposal   *)
(* id to Proposal record, and exports getProposals, getProposal,           *)
(* createProposal, voteYes, voteNo, updateProposal and deleteProposal.     *)
(* Every call runs to completion before the next one starts, so each       *)
(* exported function is one atomic action.                                 *)
(*                                                                         *)
(* Spec   models the revision with payload validation and the              *)
(*        deleteProposal(id, user) signature (src/unnamed/part_000).       *)
(* SpecV1 models the earlier revision (src/src/index.ts), whose handlers   *)
(*        have no owner check and no payload validation.                   *)
(*                                                                         *)
(* Text is a sequence of characters, so that trim() and the JavaScript     *)
(* truthiness test !s are computed rather than assumed.  A Principal read  *)
(* from storage or decoded from the arguments is a fresh heap object: it   *)
(* has a textual value and an object identity, and the two comparison      *)
(* styles used by the code (a.toString() === b.toString() and a == b) are  *)
(* modelled as what they are in JavaScript.                                *)
(***************************************************************************)
EXTENDS Integers, Sequences, FiniteSets, TLC

\* ---------------------------------------------------------------- bounds
MaxProposals == 2   \* proposals created in one run
MaxWrites    == 3   \* calls of one run that change the map

\* ---------------------------------------------------------------- inputs
Principals == {"A", "B"}

Space == " "

\* Payloads handed to createProposal: a missing title, a missing
\* description, a blank title, and a well-formed one.
CreateInputs ==
    { [title |-> <<>>,      description |-> <<"d">>],
      [title |-> <<"a">>,   description |-> <<>>],
      [title |-> <<Space>>, description |-> <<"d">>],
      [title |-> <<"a">>,   description |-> <<"d">>] }

\* Payloads handed to updateProposal: missing or blank title, missing or
\* blank description, and a well-formed one.
UpdateInputs ==
    { [title |-> <<>>,             description |-> <<"e">>],
      [title |-> <<Space, Space>>, description |-> <<"e">>],
      [title |-> <<"b">>,          description |-> <<>>],
      [title |-> <<"b">>,          description |-> <<Space>>],
      [title |-> <<"b">>,          description |-> <<"e">>] }

\* The empty string is id 0; uuids are 1, 2, ...
EmptyId == 0
IdInputs == EmptyId .. MaxProposals

VARIABLES
    proposalStorage,  \* the StableBTreeMap: id -> Proposal
    minted,           \* number of uuids handed out so far
    writes,           \* number of calls so far that changed the map
    now,              \* the value ic.time() returns to the next call
    call,             \* the call that ran last: [op, caller, id, user, payload]
    result,           \* what it returned: [ok, value, err]
    ballots           \* history: id -> caller -> successful votes cast so far

vars == <<proposalStorage, minted, writes, now, call, result, ballots>>

\* ---------------------------------------------------------------- values
None == <<>>
Some(x) == <<x>>

NoPrincipal == "-"
NoPayload == [title |-> <<>>, description |-> <<>>]
NoValue == "none"

Ok(v) == [ok |-> TRUE, value |-> v, err |-> ""]
Err(msg) == [ok |-> FALSE, value |-> NoValue, err |-> msg]

\* The messages the handlers return.  A template string is the sequence of
\* its pieces, so that the interpolated id is part of the message.
MsgInvalidId == <<"Invalid id">>
MsgGetNotFound(id) == <<"a proposal with id=", id, " not found">>
MsgMissingFields == <<"Missing required fields">>
MsgOwnerVote == <<"Owners cannot vote for their own proposal">>
MsgAlreadyVoted == <<"Already voted">>
MsgUpdateNotFound(id) == <<"couldn't update a proposal with id=", id, ". proposal not found">>
MsgInvalidPayload == <<"Invalid payload">>
MsgIdRequired == <<"id is required">>
MsgDeleteNotFound(id) == <<"couldn't delete a proposal with id=", id, ". proposal not found.">>
MsgDeleteRefused == <<"couldn't delete a proposal ,proposal not found.">>

\* JavaScript !s for a string s: true exactly for the empty string.
IsFalsy(s) == Len(s) = 0

\* String.prototype.trim: drop leading and trailing white space.
RECURSIVE TrimStart(_)
TrimStart(s) ==
    IF Len(s) > 0 /\ Head(s) = Space THEN TrimStart(Tail(s)) ELSE s

RECURSIVE TrimEnd(_)
TrimEnd(s) ==
    IF Len(s) > 0 /\ s[Len(s)] = Space
    THEN TrimEnd(SubSeq(s, 1, Len(s) - 1))
    ELSE s

Trim(s) == TrimEnd(TrimStart(s))

\* Array.prototype.includes
Includes(arr, x) == \E i \in 1 .. Len(arr) : arr[i] = x

\* A Principal object on the JavaScript heap.  Every decoding (of the call's
\* arguments, of a record read from stable memory, of ic.caller()) builds a
\* new object, so objects from different places never share an identity.
PrincipalObject(place, text) == [ref |-> place, text |-> text]
Undefined == [ref |-> "undefined", text |-> "undefined"]

\* Principal.prototype.toString
PrincipalText(p) == p.text

\* a.toString() === b.toString()
SameText(a, b) == PrincipalText(a) = PrincipalText(b)

\* Mutant of LooseEquals: principals compared by their text.
LooseEqualsByText(a, b) == PrincipalText(a) = PrincipalText(b)

\* a == b where each side is an object or undefined: two objects are equal
\* when they are the same object, undefined equals only undefined.
LooseEquals(a, b) == a.ref = b.ref

\* StableBTreeMap
MapGet(map, id) == IF id \in DOMAIN map THEN Some(map[id]) ELSE None
MapInsert(map, id, v) == [k \in DOMAIN map \cup {id} |-> IF k = id THEN v ELSE map[k]]
MapRemove(map, id) == [k \in DOMAIN map \ {id} |-> map[k]]

RECURSIVE SortedIds(_)
SortedIds(S) ==
    IF S = {} THEN <<>>
    ELSE LET m == CHOOSE x \in S : \A y \in S : x <= y
         IN <<m>> \o SortedIds(S \ {m})

MapValues(map) ==
    LET ids == SortedIds(DOMAIN map)
    IN [i \in 1 .. Len(ids) |-> map[ids[i]]]

\* uuidv4(): an id that was never handed out before.
Uuidv4(n) == n + 1

\* ---------------------------------------------------------------- state
Init ==
    /\ proposalStorage = << >>
    /\ minted = 0
    /\ writes = 0
    /\ now = 0
    /\ call = [op |-> "init", caller |-> NoPrincipal, id |-> EmptyId,
               user |-> NoPrincipal, payload |-> NoPayload]
    /\ result = Ok(NoValue)
    /\ ballots = [i \in 1 .. MaxProposals |-> [c \in Principals |-> 0]]

\* ------------------------------------------------- handlers (part_000)
\* Each handler is a function of the map, ic.caller(), its arguments and
\* ic.time(); it yields the map it leaves behind and the value it returns.
Outcome(map, res) == [storage |-> map, result |-> res]

getProposals(map) == Outcome(map, Ok(MapValues(map)))

getProposal(map, id) ==
    IF id = EmptyId THEN Outcome(map, Err(MsgInvalidId))
    ELSE LET found == MapGet(map, id)
         IN IF found # None
            THEN Outcome(map, Ok(found[1]))
            ELSE Outcome(map, Err(MsgGetNotFound(id)))

\* Mutant of createProposal: only the title is required.
createProposalTitleOnly(map, caller, payload, uuid, time) ==
    IF IsFalsy(payload.title)
    THEN [storage |-> map, result |-> Err(MsgMissingFields)]
    ELSE LET proposal == [owner       |-> caller,
                          id          |-> uuid,
                          title       |-> payload.title,
                          description |-> payload.description,
                          voters      |-> <<>>,
                          yesVotes    |-> 0,
                          noVotes     |-> 0,
                          created_at  |-> time,
                          updated_at  |-> None]
         IN [storage |-> MapInsert(map, proposal.id, proposal),
             result |-> Ok(proposal)]

createProposal(map, caller, payload, uuid, time) ==
    IF IsFalsy(payload.title) \/ IsFalsy(payload.description)
    THEN Outcome(map, Err(MsgMissingFields))
    ELSE LET proposal == [owner       |-> caller,
                          id          |-> uuid,
                          title       |-> payload.title,
                          description |-> payload.description,
                          voters      |-> <<>>,
                          yesVotes    |-> 0,
                          noVotes     |-> 0,
                          created_at  |-> time,
                          updated_at  |-> None]
         IN Outcome(MapInsert(map, proposal.id, proposal), Ok(proposal))

\* Mutant of voteYes: the vote is counted without stamping updated_at.
voteYesUnstamped(map, caller, id, time) ==
    LET found == MapGet(map, id)
    IN IF found = None
       THEN [storage |-> map, result |-> Err(MsgUpdateNotFound(id))]
       ELSE LET proposal == found[1]
            IN IF proposal.owner = caller
               THEN [storage |-> map, result |-> Err(MsgOwnerVote)]
               ELSE IF Includes(proposal.voters, caller)
               THEN [storage |-> map, result |-> Err(MsgAlreadyVoted)]
               ELSE LET voted == [proposal EXCEPT !.yesVotes = @ + 1]
                    IN [storage |-> MapInsert(map, voted.id, voted),
                        result |-> Ok(voted)]

voteYes(map, caller, id, time) ==
    LET found == MapGet(map, id)
    IN IF found = None THEN Outcome(map, Err(MsgUpdateNotFound(id)))
       ELSE LET proposal == found[1]
                me == PrincipalObject("caller", caller)
                owner == PrincipalObject("storage", proposal.owner)
            IN IF SameText(owner, me)
               THEN Outcome(map, Err(MsgOwnerVote))
               ELSE IF Includes(proposal.voters, PrincipalText(me))
               THEN Outcome(map, Err(MsgAlreadyVoted))
               ELSE LET voted == [proposal EXCEPT
                                    !.yesVotes = @ + 1,
                                    !.updated_at = Some(time)]
                    IN Outcome(MapInsert(map, voted.id, voted), Ok(voted))

\* Mutant of voteNo: the owner check is left out.
voteNoOwnerUnchecked(map, caller, id, time) ==
    LET found == MapGet(map, id)
    IN IF found = None
       THEN [storage |-> map, result |-> Err(MsgUpdateNotFound(id))]
       ELSE LET proposal == found[1]
            IN IF Includes(proposal.voters, caller)
               THEN [storage |-> map, result |-> Err(MsgAlreadyVoted)]
               ELSE LET voted == [proposal EXCEPT
                                    !.noVotes = @ + 1,
                                    !.updated_at = Some(time)]
                    IN [storage |-> MapInsert(map, voted.id, voted),
                        result |-> Ok(voted)]

\* Mutant of voteNo: a no vote is taken off the yes count.
voteNoTakesFromYes(map, caller, id, time) ==
    LET found == MapGet(map, id)
    IN IF found = None
       THEN [storage |-> map, result |-> Err(MsgUpdateNotFound(id))]
       ELSE LET proposal == found[1]
            IN IF proposal.owner = caller
               THEN [storage |-> map, result |-> Err(MsgOwnerVote)]
               ELSE IF Includes(proposal.voters, caller)
               THEN [storage |-> map, result |-> Err(MsgAlreadyVoted)]
               ELSE LET voted == [proposal EXCEPT
                                    !.noVotes = @ + 1,
                                    !.yesVotes = @ - 1,
                                    !.updated_at = Some(time)]
                    IN [storage |-> MapInsert(map, voted.id, voted),
                        result |-> Ok(voted)]

voteNo(map, caller, id, time) ==
    LET found == MapGet(map, id)
    IN IF found = None THEN Outcome(map, Err(MsgUpdateNotFound(id)))
       ELSE LET proposal == found[1]
                me == PrincipalObject("caller", caller)
                owner == PrincipalObject("storage", proposal.owner)
            IN IF SameText(owner, me)
               THEN Outcome(map, Err(MsgOwnerVote))
               ELSE IF Includes(proposal.voters, PrincipalText(me))
               THEN Outcome(map, Err(MsgAlreadyVoted))
               ELSE LET voted == [proposal EXCEPT
                                    !.noVotes = @ + 1,
                                    !.updated_at = Some(time)]
                    IN Outcome(MapInsert(map, voted.id, voted), Ok(voted))

\* Mutant of isValidPayload: the fields are tested without trimming.
isValidPayloadNoTrim(payload) ==
    ~IsFalsy(payload.title) /\ ~IsFalsy(payload.description)

isValidPayload(payload) ==
    IF IsFalsy(payload.title) \/ Trim(payload.title) = <<>> THEN FALSE
    ELSE IF IsFalsy(payload.description) \/ Trim(payload.description) = <<>> THEN FALSE
    ELSE TRUE

\* Mutant of updateProposal: the new text is written to every record.
updateProposalEveryRecord(map, id, payload, time) ==
    IF ~isValidPayload(payload)
    THEN [storage |-> map, result |-> Err(MsgInvalidPayload)]
    ELSE LET found == MapGet(map, id)
         IN IF found = None
            THEN [storage |-> map, result |-> Err(MsgUpdateNotFound(id))]
            ELSE LET edit(p) == [p EXCEPT !.title = payload.title,
                                          !.description = payload.description,
                                          !.updated_at = Some(time)]
                 IN [storage |-> [k \in DOMAIN map |-> edit(map[k])],
                     result |-> Ok(edit(found[1]))]

\* Mutant of updateProposal: the edited proposal starts a new ballot.
updateProposalResetsVotes(map, id, payload, time) ==
    IF ~isValidPayload(payload)
    THEN [storage |-> map, result |-> Err(MsgInvalidPayload)]
    ELSE LET found == MapGet(map, id)
         IN IF found = None
            THEN [storage |-> map, result |-> Err(MsgUpdateNotFound(id))]
            ELSE LET updatedProposal == [found[1] EXCEPT
                                           !.title = payload.title,
                                           !.description = payload.description,
                                           !.voters = <<>>,
                                           !.yesVotes = 0,
                                           !.noVotes = 0,
                                           !.updated_at = Some(time)]
                 IN [storage |-> MapInsert(map, id, updatedProposal),
                     result |-> Ok(updatedProposal)]

\* Mutant of updateProposal: the edit also stamps created_at anew.
updateProposalRestamps(map, id, payload, time) ==
    IF ~isValidPayload(payload)
    THEN [storage |-> map, result |-> Err(MsgInvalidPayload)]
    ELSE LET found == MapGet(map, id)
         IN IF found = None
            THEN [storage |-> map, result |-> Err(MsgUpdateNotFound(id))]
            ELSE LET updatedProposal == [found[1] EXCEPT
                                           !.title = payload.title,
                                           !.description = payload.description,
                                           !.created_at = time,
                                           !.updated_at = Some(time)]
                 IN [storage |-> MapInsert(map, id, updatedProposal),
                     result |-> Ok(updatedProposal)]

\* Mutant of updateProposal: the record is written before the payload is
\* validated.
updateProposalWriteFirst(map, id, payload, time) ==
    LET found == MapGet(map, id)
    IN IF found = None
       THEN [storage |-> map, result |-> Err(MsgUpdateNotFound(id))]
       ELSE LET updatedProposal == [found[1] EXCEPT
                                      !.title = payload.title,
                                      !.description = payload.description,
                                      !.updated_at = Some(time)]
                written == MapInsert(map, id, updatedProposal)
            IN IF IsFalsy(payload.title) \/ Trim(payload.title) = <<>>
                  \/ IsFalsy(payload.description) \/ Trim(payload.description) = <<>>
               THEN [storage |-> written, result |-> Err(MsgInvalidPayload)]
               ELSE [storage |-> written, result |-> Ok(updatedProposal)]

updateProposal(map, id, payload, time) ==
    IF ~isValidPayload(payload) THEN Outcome(map, Err(MsgInvalidPayload))
    ELSE LET found == MapGet(map, id)
         IN IF found = None THEN Outcome(map, Err(MsgUpdateNotFound(id)))
            ELSE LET proposal == found[1]
                     updatedProposal == [proposal EXCEPT
                                           !.title = payload.title,
                                           !.description = payload.description,
                                           !.updated_at = Some(time)]
                 IN Outcome(MapInsert(map, proposal.id, updatedProposal),
                            Ok(updatedProposal))

\* Mutant of deleteProposal: the requester is not compared with the owner.
deleteProposalUnguarded(map, id, user) ==
    IF id = EmptyId THEN [storage |-> map, result |-> Err(MsgIdRequired)]
    ELSE IF id \in DOMAIN map
    THEN [storage |-> MapRemove(map, id), result |-> Ok(map[id])]
    ELSE [storage |-> map, result |-> Err(MsgDeleteNotFound(id))]

deleteProposal(map, id, user) ==
    IF id = EmptyId THEN Outcome(map, Err(MsgIdRequired))
    ELSE LET proposal == MapGet(map, id)
             \* proposal.Some?.owner
             owner == IF proposal = None THEN Undefined
                      ELSE PrincipalObject("storage", proposal[1].owner)
             requester == PrincipalObject("argument", user)
         IN IF LooseEquals(owner, requester)
            THEN IF id \in DOMAIN map
                 THEN Outcome(MapRemove(map, id), Ok(map[id]))
                 ELSE Outcome(map, Err(MsgDeleteNotFound(id)))
            ELSE Outcome(map, Err(MsgDeleteRefused))

\* ---------------------------------------------------------------- actions
\* call.caller is ic.caller() for the handlers that read it and for
\* deleteProposal; the other handlers never look at it.
Called(op, caller, id, user, payload) ==
    call' = [op |-> op, caller |-> caller, id |-> id, user |-> user,
             payload |-> payload]

Returned(out) ==
    /\ out.storage # proposalStorage => writes < MaxWrites
    /\ proposalStorage' = out.storage
    /\ result' = out.result
    /\ writes' = IF out.storage # proposalStorage THEN writes + 1 ELSE writes

Counted(out, id, c) ==
    ballots' = IF out.result.ok
               THEN [ballots EXCEPT ![id][c] = @ + 1]
               ELSE ballots

\* ic.time() never runs backwards and no handler compares timestamps, so
\* the clock is a logical one: it moves on after each call that read it.
Clock(out) == now' = IF out.result.ok THEN now + 1 ELSE now

GetProposals ==
    /\ Called("getProposals", NoPrincipal, EmptyId, NoPrincipal, NoPayload)
    /\ Returned(getProposals(proposalStorage))
    /\ UNCHANGED <<minted, now, ballots>>

GetProposal(id) ==
    /\ Called("getProposal", NoPrincipal, id, NoPrincipal, NoPayload)
    /\ Returned(getProposal(proposalStorage, id))
    /\ UNCHANGED <<minted, now, ballots>>

CreateProposal(c, payload) ==
    /\ minted < MaxProposals
    /\ Called("createProposal", c, EmptyId, NoPrincipal, payload)
    /\ LET out == createProposal(proposalStorage, c, payload, Uuidv4(minted), now)
       IN /\ Returned(out)
          /\ Clock(out)
          /\ minted' = IF out.result.ok THEN minted + 1 ELSE minted
    /\ UNCHANGED ballots

VoteYes(c, id) ==
    /\ Called("voteYes", c, id, NoPrincipal, NoPayload)
    /\ LET out == voteYes(proposalStorage, c, id, now)
       IN Returned(out) /\ Clock(out) /\ Counted(out, id, c)
    /\ UNCHANGED minted

VoteNo(c, id) ==
    /\ Called("voteNo", c, id, NoPrincipal, NoPayload)
    /\ LET out == voteNo(proposalStorage, c, id, now)
       IN Returned(out) /\ Clock(out) /\ Counted(out, id, c)
    /\ UNCHANGED minted

UpdateProposal(id, payload) ==
    /\ Called("updateProposal", NoPrincipal, id, NoPrincipal, payload)
    /\ LET out == updateProposal(proposalStorage, id, payload, now)
       IN Returned(out) /\ Clock(out)
    /\ UNCHANGED <<minted, ballots>>

DeleteProposal(c, id, user) ==
    /\ Called("deleteProposal", c, id, user, NoPayload)
    /\ Returned(deleteProposal(proposalStorage, id, user))
    /\ UNCHANGED <<minted, now, ballots>>

Next ==
    \/ GetProposals
    \/ \E id \in IdInputs : GetProposal(id)
    \/ \E c \in Principals, payload \in CreateInputs :
          CreateProposal(c, payload)
    \/ \E c \in Principals, id \in IdInputs : VoteYes(c, id)
    \/ \E c \in Principals, id \in IdInputs : VoteNo(c, id)
    \/ \E id \in IdInputs, payload \in UpdateInputs :
          UpdateProposal(id, payload)
    \/ \E c \in Principals, id \in IdInputs, user \in Principals :
          DeleteProposal(c, id, user)

Spec == Init /\ [][Next]_vars

\* ------------------------------------------- the earlier revision (index.ts)
\* src/index.ts holds the handlers as they were before validation and the
\* owner checks were added: getProposal takes any id, the votes do not look
\* at the owner, updateProposal spreads the payload over the record, and
\* deleteProposal(id) removes whatever is stored under id.
getProposalsV1(map) == Outcome(map, Ok(MapValues(map)))

getProposalV1(map, id) ==
    LET found == MapGet(map, id)
    IN IF found # None
       THEN Outcome(map, Ok(found[1]))
       ELSE Outcome(map, Err(MsgGetNotFound(id)))

createProposalV1(map, caller, payload, uuid, time) ==
    IF IsFalsy(payload.title) \/ IsFalsy(payload.description)
    THEN Outcome(map, Err(MsgMissingFields))
    ELSE LET proposal == [owner       |-> caller,
                          id          |-> uuid,
                          title       |-> payload.title,
                          description |-> payload.description,
                          voters      |-> <<>>,
                          yesVotes    |-> 0,
                          noVotes     |-> 0,
                          created_at  |-> time,
                          updated_at  |-> None]
         IN Outcome(MapInsert(map, proposal.id, proposal), Ok(proposal))

\* Array.from(voters.values()).filter(v => v.toString() === caller.toString())
HasVoted(voters, caller) ==
    SelectSeq(voters, LAMBDA v : v = PrincipalText(PrincipalObject("caller", caller)))

voteYesV1(map, caller, id, time) ==
    LET found == MapGet(map, id)
    IN IF found = None THEN Outcome(map, Err(MsgUpdateNotFound(id)))
       ELSE LET proposal == found[1]
            IN IF Len(HasVoted(proposal.voters, caller)) > 0
               THEN Outcome(map, Err(MsgAlreadyVoted))
               ELSE LET updatedProposal == [proposal EXCEPT
                                              !.yesVotes = @ + 1,
                                              !.updated_at = Some(time)]
                    IN Outcome(MapInsert(map, proposal.id, updatedProposal),
                               Ok(updatedProposal))

voteNoV1(map, caller, id, time) ==
    LET found == MapGet(map, id)
    IN IF found = None THEN Outcome(map, Err(MsgUpdateNotFound(id)))
       ELSE LET proposal == found[1]
            IN IF Len(HasVoted(proposal.voters, caller)) > 0
               THEN Outcome(map, Err(MsgAlreadyVoted))
               ELSE LET updatedProposal == [proposal EXCEPT
                                              !.noVotes = @ + 1,
                                              !.updated_at = Some(time)]
                    IN Outcome(MapInsert(map, proposal.id, updatedProposal),
                               Ok(updatedProposal))

updateProposalV1(map, id, payload, time) ==
    LET found == MapGet(map, id)
    IN IF found = None THEN Outcome(map, Err(MsgUpdateNotFound(id)))
       ELSE LET proposal == found[1]
                updatedProposal == [proposal EXCEPT
                                      !.title = payload.title,
                                      !.description = payload.description,
                                      !.updated_at = Some(time)]
            IN Outcome(MapInsert(map, proposal.id, updatedProposal),
                       Ok(updatedProposal))

deleteProposalV1(map, id) ==
    IF id \in DOMAIN map
    THEN Outcome(MapRemove(map, id), Ok(map[id]))
    ELSE Outcome(map, Err(MsgDeleteNotFound(id)))

GetProposalsV1 ==
    /\ Called("getProposals", NoPrincipal, EmptyId, NoPrincipal, NoPayload)
    /\ Returned(getProposalsV1(proposalStorage))
    /\ UNCHANGED <<minted, now, ballots>>

GetProposalV1(id) ==
    /\ Called("getProposal", NoPrincipal, id, NoPrincipal, NoPayload)
    /\ Returned(getProposalV1(proposalStorage, id))
    /\ UNCHANGED <<minted, now, ballots>>

CreateProposalV1(c, payload) ==
    /\ minted < MaxProposals
    /\ Called("createProposal", c, EmptyId, NoPrincipal, payload)
    /\ LET out == createProposalV1(proposalStorage, c, payload, Uuidv4(minted), now)
       IN /\ Returned(out)
          /\ Clock(out)
          /\ minted' = IF out.result.ok THEN minted + 1 ELSE minted
    /\ UNCHANGED ballots

VoteYesV1(c, id) ==
    /\ Called("voteYes", c, id, NoPrincipal, NoPayload)
    /\ LET out == voteYesV1(proposalStorage, c, id, now)
       IN Returned(out) /\ Clock(out) /\ Counted(out, id, c)
    /\ UNCHANGED minted

VoteNoV1(c, id) ==
    /\ Called("voteNo", c, id, NoPrincipal, NoPayload)
    /\ LET out == voteNoV1(proposalStorage, c, id, now)
       IN Returned(out) /\ Clock(out) /\ Counted(out, id, c)
    /\ UNCHANGED minted

UpdateProposalV1(id, payload) ==
    /\ Called("updateProposal", NoPrincipal, id, NoPrincipal, payload)
    /\ LET out == updateProposalV1(proposalStorage, id, payload, now)
       IN Returned(out) /\ Clock(out)
    /\ UNCHANGED <<minted, ballots>>

DeleteProposalV1(c, id) ==
    /\ Called("deleteProposal", c, id, NoPrincipal, NoPayload)
    /\ Returned(deleteProposalV1(proposalStorage, id))
    /\ UNCHANGED <<minted, now, ballots>>

NextV1 ==
    \/ GetProposalsV1
    \/ \E id \in IdInputs : GetProposalV1(id)
    \/ \E c \in Principals, payload \in CreateInputs : CreateProposalV1(c, payload)
    \/ \E c \in Principals, id \in IdInputs : VoteYesV1(c, id)
    \/ \E c \in Principals, id \in IdInputs : VoteNoV1(c, id)
    \/ \E id \in IdInputs, payload \in UpdateInputs : UpdateProposalV1(id, payload)
    \/ \E c \in Principals, id \in IdInputs : DeleteProposalV1(c, id)

SpecV1 == Init /\ [][NextV1]_vars

\* ================================================================ claims
Votes == {"voteYes", "voteNo"}

HasProposal(map, id) == id \in DOMAIN map

\* A text with nothing but white space in it (the empty text included).
IsBlank(s) == \A i \in 1 .. Len(s) : s[i] = Space

\* The step is a vote by a caller on a stored proposal.
VoteStep == call'.op \in Votes /\ HasProposal(proposalStorage, call'.id)

\* C1: once a caller has cast a successful vote on a proposal, every later
\* voteYes or voteNo by that caller on it fails with "Already voted" and
\* leaves yesVotes and noVotes as they were.
C1_RepeatVoteRejected ==
    [][ (VoteStep /\ ballots[call'.id][call'.caller] >= 1)
        => /\ result' = Err(MsgAlreadyVoted)
           /\ proposalStorage'[call'.id].yesVotes = proposalStorage[call'.id].yesVotes
           /\ proposalStorage'[call'.id].noVotes = proposalStorage[call'.id].noVotes
      ]_vars

\* C2: every stored proposal has yesVotes + noVotes = |voters|.
C2_TallyMatchesVoters ==
    \A id \in DOMAIN proposalStorage :
        proposalStorage[id].yesVotes + proposalStorage[id].noVotes
            = Len(proposalStorage[id].voters)

\* C3: a successful voteYes (voteNo) by c adds c to voters, adds exactly one
\* to yesVotes (noVotes), leaves the other counter alone, sets updated_at,
\* and returns the record that is stored afterwards.
C3_VoteRecordsVoter ==
    [][ (VoteStep /\ result'.ok)
        => LET before == proposalStorage[call'.id]
               after == proposalStorage'[call'.id]
               yes == IF call'.op = "voteYes" THEN 1 ELSE 0
           IN /\ Includes(after.voters, call'.caller)
              /\ after.yesVotes = before.yesVotes + yes
              /\ after.noVotes = before.noVotes + (1 - yes)
              /\ after.updated_at # None
              /\ result'.value = after
      ]_vars

DeleteStep == call'.op = "deleteProposal" /\ HasProposal(proposalStorage, call'.id)

C6_OwnerDeleteSucceeds ==
    [][ (DeleteStep /\ proposalStorage[call'.id].owner = call'.user)
        => /\ result' = Ok(proposalStorage[call'.id])
           /\ ~HasProposal(proposalStorage', call'.id)
           /\ getProposal(proposalStorage', call'.id).result
                  = Err(MsgGetNotFound(call'.id))
      ]_vars

C8_FailuresChangeNothing ==
    [][ (~result'.ok \/ call'.op \in {"getProposal", "getProposals"})
        => proposalStorage' = proposalStorage
      ]_vars

C8_Witness ==
    /\ ~result.ok
    /\ call.op = "updateProposal"
    /\ HasProposal(proposalStorage, call.id)
    /\ proposalStorage[call.id].updated_at # None

UpdateStep == call'.op = "updateProposal" /\ HasProposal(proposalStorage, call'.id)

\* C11: a successful updateProposal puts the payload's title and description
\* in the stored record and sets updated_at, and leaves voters, yesVotes,
\* noVotes, owner, id and created_at of that record as they were.
C11_UpdateTouchesTextOnly ==
    [][ (UpdateStep /\ result'.ok)
        => LET before == proposalStorage[call'.id]
               after == proposalStorage'[call'.id]
           IN /\ after.title = call'.payload.title
              /\ after.description = call'.payload.description
              /\ after.updated_at # None
              /\ after.voters = before.voters
              /\ after.yesVotes = before.yesVotes
              /\ after.noVotes = before.noVotes
              /\ after.owner = before.owner
              /\ after.id = before.id
              /\ after.created_at = before.created_at
      ]_vars

\* A proposal that had been voted on was given a new title.
C11_Witness ==
    /\ call.op = "updateProposal"
    /\ result.ok
    /\ proposalStorage[call.id].title = call.payload.title
    /\ proposalStorage[call.id].yesVotes + proposalStorage[call.id].noVotes > 0

\* C12: as long as a proposal is stored, its id, owner and created_at are
\* what they were when it was created, whatever votes and updates arrive.
C12_IdentityIsFixed ==
    [][ \A id \in DOMAIN proposalStorage \cap DOMAIN proposalStorage' :
          /\ proposalStorage'[id].id = proposalStorage[id].id
          /\ proposalStorage'[id].owner = proposalStorage[id].owner
          /\ proposalStorage'[id].created_at = proposalStorage[id].created_at
      ]_vars

\* A proposal has been voted on and then updated, at a later time than it
\* was created, by calls of someone other than its owner.
C12_Witness ==
    \E id \in DOMAIN proposalStorage :
        /\ ballots[id][CHOOSE c \in Principals : c # proposalStorage[id].owner] > 0
        /\ proposalStorage[id].title = <<"b">>
        /\ proposalStorage[id].updated_at # None
        /\ proposalStorage[id].updated_at[1] > proposalStorage[id].created_at
        /\ proposalStorage[id].id = id


\* The step is a successful voteYes, voteNo or updateProposal on id.
Mutates(id) ==
    /\ call'.op \in Votes \cup {"updateProposal"}
    /\ call'.id = id
    /\ result'.ok

\* C13: updated_at of a stored proposal is absent exactly as long as no
\* voteYes, voteNo or updateProposal has succeeded on it: it is absent when
\* the proposal is created, every such success makes it present, nothing
\* else changes it, and once present it stays present.
C13_UpdatedAtTracksMutation ==
    [][ \A id \in DOMAIN proposalStorage' :
          IF ~HasProposal(proposalStorage, id)
          THEN proposalStorage'[id].updated_at = None
          ELSE /\ Mutates(id) => proposalStorage'[id].updated_at # None
               /\ ~Mutates(id) =>
                     proposalStorage'[id].updated_at = proposalStorage[id].updated_at
               /\ proposalStorage[id].updated_at # None
                     => proposalStorage'[id].updated_at # None
      ]_vars

\* One proposal has been voted on and carries updated_at, while another one
\* created before that vote was never touched and carries none.
C13_Witness ==
    \E i, j \in DOMAIN proposalStorage :
        /\ ballots[i][CHOOSE c \in Principals : c # proposalStorage[i].owner] > 0
        /\ proposalStorage[i].updated_at # None
        /\ proposalStorage[j].updated_at = None
        /\ proposalStorage[i].updated_at[1] > proposalStorage[j].created_at


\* What deleteProposal answers when nothing is stored under the id.
DeleteNotFound(id, user) ==
    deleteProposal(MapRemove(proposalStorage, id), id, user).result

\* C14: deleteProposal on a stored proposal with a requester other than the
\* owner fails with an authorization failure, which is not the failure it
\* returns when no proposal is stored under the id.
C14_RefusalIsNotNotFound ==
    [][ (DeleteStep /\ proposalStorage[call'.id].owner # call'.user)
        => /\ ~result'.ok
           /\ result'.err # DeleteNotFound(call'.id, call'.user).err
      ]_vars


\* C15: a successful createProposal, voteYes, voteNo, updateProposal or
\* deleteProposal leaves the record under every id other than its own as
\* it was; an id enters the map only in a createProposal step and leaves
\* it only in a deleteProposal step.
C15_OtherRecordsUntouched ==
    [][ /\ \A id \in DOMAIN proposalStorage \cap DOMAIN proposalStorage' :
             (call'.op = "createProposal" \/ id # call'.id)
             => proposalStorage'[id] = proposalStorage[id]
        /\ DOMAIN proposalStorage' \ DOMAIN proposalStorage # {}
             => call'.op = "createProposal"
        /\ DOMAIN proposalStorage \ DOMAIN proposalStorage' # {}
             => call'.op = "deleteProposal"
      ]_vars

\* With two proposals stored, one has been updated while the other, created
\* with a blank title, still is as it was created.
C15_Witness ==
    /\ call.op = "updateProposal"
    /\ result.ok
    /\ \E other \in DOMAIN proposalStorage :
          /\ other # call.id
          /\ proposalStorage[other].title = <<Space>>
          /\ proposalStorage[other].updated_at = None


\* C16: the title and the description of every stored proposal are neither
\* empty nor blank.
C16_NoBlankText ==
    \A id \in DOMAIN proposalStorage :
        /\ ~IsBlank(proposalStorage[id].title)
        /\ ~IsBlank(proposalStorage[id].description)

\* C17: yesVotes and noVotes of a stored proposal are never negative and
\* never decrease from one step to the next, and no member of its voters
\* is ever dropped.
C17_TallyNeverGoesBack ==
    /\ [](\A id \in DOMAIN proposalStorage :
            proposalStorage[id].yesVotes >= 0 /\ proposalStorage[id].noVotes >= 0)
    /\ [][ \A id \in DOMAIN proposalStorage \cap DOMAIN proposalStorage' :
            /\ proposalStorage'[id].yesVotes >= proposalStorage[id].yesVotes
            /\ proposalStorage'[id].noVotes >= proposalStorage[id].noVotes
            /\ \A i \in 1 .. Len(proposalStorage[id].voters) :
                  Includes(proposalStorage'[id].voters, proposalStorage[id].voters[i])
          ]_vars

\* A proposal holds a yes vote and then received a no vote.
C17_Witness ==
    /\ call.op = "voteNo"
    /\ result.ok
    /\ proposalStorage[call.id].yesVotes > 0
    /\ proposalStorage[call.id].noVotes > 0

====
